---------------------------- MODULE Spec2Model ----------------------------
(***************************************************************************)
(* A model of src/server/save.rs of the `multipart` crate: the streaming   *)
(* copy primitives (try_write_all, try_copy_buf, try_copy_limited), the    *)
(* single-field save (save_mem, write_to, with_path), the whole-request    *)
(* save loop (with_entries), the copy primitives once more step by step    *)
(* with interrupted calls, the save directory (SaveDir), the conversions   *)
(* of a returned SaveResult and PartialEntries, the builder's setters and  *)
(* a save resumed with with_entries after keep_partial.                    *)
(*                                                                         *)
(* The source is a work-in-progress revision whose types do not all line   *)
(* up.  Where an expression is ill-typed the model follows the statement   *)
(* as written and says so next to the definition:                          *)
(*   - with_path returns `Full(bytes)` for a fully buffered field: the     *)
(*     byte vector is returned as it is (SavedData::Bytes); no call to     *)
(*     String::from_utf8 is on that path.                                  *)
(*   - save_mem's first branch returns `write_to(..).map(|_| bytes)`,      *)
(*     which carries no flag; a Full here means the stream ended, the same *)
(*     outcome the second branch flags `true`.                             *)
(*   - `try_write_all(&bytes)` in with_path names no writer; the writer is *)
(*     the file opened on the line before.                                 *)
(*   - Entries declares one map, `fields`; mut_files_for and the text      *)
(*     branch of with_entries both add records to it.                      *)
(***************************************************************************)
EXTENDS Integers, Sequences, FiniteSets, TLC

----------------------------------------------------------------------------
(* Bounds of the model. *)

\* longest buffer of a copy and longest body of a request's field, in bytes
MaxLen == 3
\* longest body of a field saved alone, and largest limit set on its builder
MaxBody == 2
\* largest chunk a reader hands out per fill_buf / a file takes per write
MaxChunk == 2
\* most entries a request delivers
MaxFields == 3
\* DEFAULT_MEMORY_THRESHOLD (save.rs:61) is 8 MiB; scaled to the model's sizes
DEFAULT_MEMORY_THRESHOLD == 1

\* Option::None of a limit, a fault offset or a path
None == 0 - 1

Min(a, b) == IF a < b THEN a ELSE b

\* the byte values bodies are made of: 'A', and the two bytes of U+00E9
Byte == {65, 195, 169}

RECURSIVE SeqsUpTo(_)
SeqsUpTo(n) ==
    IF n = 0 THEN {<< >>}
    ELSE LET S == SeqsUpTo(n - 1)
         IN  S \cup {Append(s, b) : s \in {t \in S : Len(t) = n - 1}, b \in Byte}

Bodies == SeqsUpTo(MaxBody)

Drop(s, k) == SubSeq(s, k + 1, Len(s))

----------------------------------------------------------------------------
(* String::from_utf8 and String::as_bytes.  A String is modelled by its    *)
(* sequence of code points.                                                *)

IsCont(b) == b >= 128 /\ b <= 191

RECURSIVE from_utf8(_)
from_utf8(bytes) ==
    IF bytes = << >> THEN [ok |-> TRUE, string |-> << >>]
    ELSE LET b0 == bytes[1]
             n  == Len(bytes)
             width == IF b0 < 128 THEN 1
                      ELSE IF b0 >= 194 /\ b0 <= 223 THEN 2
                      ELSE IF b0 >= 224 /\ b0 <= 239 THEN 3
                      ELSE IF b0 >= 240 /\ b0 <= 244 THEN 4
                      ELSE 0
             bad == [ok |-> FALSE, string |-> << >>]
         IN  IF width = 0 \/ n < width THEN bad
             ELSE LET wellFormed ==
                          /\ \A i \in 2..width : IsCont(bytes[i])
                          /\ (b0 = 224 => bytes[2] >= 160)
                          /\ (b0 = 237 => bytes[2] <= 159)
                          /\ (b0 = 240 => bytes[2] >= 144)
                          /\ (b0 = 244 => bytes[2] <= 143)
                      cp == CASE width = 1 -> b0
                              [] width = 2 -> (b0 - 192) * 64 + (bytes[2] - 128)
                              [] width = 3 -> (b0 - 224) * 4096 + (bytes[2] - 128) * 64
                                                + (bytes[3] - 128)
                              [] width = 4 -> (b0 - 240) * 262144 + (bytes[2] - 128) * 4096
                                                + (bytes[3] - 128) * 64 + (bytes[4] - 128)
                  IN  IF ~wellFormed THEN bad
                      ELSE LET rest == from_utf8(Drop(bytes, width))
                           IN  IF rest.ok
                               THEN [ok |-> TRUE, string |-> <<cp>> \o rest.string]
                               ELSE bad

RECURSIVE as_bytes(_)
as_bytes(string) ==
    IF string = << >> THEN << >>
    ELSE LET c == string[1]
             enc == IF c < 128 THEN <<c>>
                    ELSE IF c < 2048 THEN <<192 + (c \div 64), 128 + (c % 64)>>
                    ELSE IF c < 65536
                         THEN <<224 + (c \div 4096), 128 + ((c \div 64) % 64), 128 + (c % 64)>>
                    ELSE <<240 + (c \div 262144), 128 + ((c \div 4096) % 64),
                           128 + ((c \div 64) % 64), 128 + (c % 64)>>
         IN  enc \o as_bytes(Tail(string))

----------------------------------------------------------------------------
(* SaveResult<S, P> and PartialReason.                                     *)

Full(v) == [tag |-> "Full", val |-> v, reason |-> "None", err |-> "None"]
Partial(v, reason, err) == [tag |-> "Partial", val |-> v, reason |-> reason, err |-> err]
Error(e) == [tag |-> "Error", val |-> None, reason |-> "None", err |-> e]

\* io::Result
Ok(v) == [ok |-> TRUE, val |-> <<v>>, err |-> << >>]
Err(e) == [ok |-> FALSE, val |-> << >>, err |-> <<e>>]

\* a value with named fields (a record), as opposed to a number
HasFields(v) == SubSeq(ToString(v), 1, 1) = "["

\* P: Into<S>.  PartialEntries into Entries discards partial_file (lines
\* 671-675); a u64 and a SavedData are their own partial type
into(partial) ==
    IF HasFields(partial) /\ "partial_file" \in DOMAIN partial
    THEN partial.entries
    ELSE partial

\* SaveResult::map: the payload of Full, or of Partial after `.into()`,
\* transformed, the reason kept
map(res, f) ==
    CASE res.tag = "Full"    -> Full(f[res.val])
      [] res.tag = "Partial" -> Partial(f[into(res.val)], res.reason, res.err)
      [] res.tag = "Error"   -> res

----------------------------------------------------------------------------
(* The field's body stream: a BufRead over `data`.  `pos` bytes have been  *)
(* consumed, the internal buffer holds data[pos+1 .. bufEnd].  A read of   *)
(* the underlying connection hands over at most `chunk` bytes and fails    *)
(* when it is issued at offset failAt.                                     *)

Reader(data, chunk, failAt) ==
    [data |-> data, pos |-> 0, bufEnd |-> 0, chunk |-> chunk, failAt |-> failAt]

fill_buf(r) ==
    IF r.pos < r.bufEnd
    THEN [ok |-> TRUE, r |-> r, buf |-> SubSeq(r.data, r.pos + 1, r.bufEnd)]
    ELSE IF r.failAt = r.pos
    THEN [ok |-> FALSE, r |-> r, buf |-> << >>]
    ELSE LET e == Min(r.pos + r.chunk, Len(r.data))
         IN  [ok |-> TRUE, r |-> [r EXCEPT !.bufEnd = e],
              buf |-> SubSeq(r.data, r.pos + 1, e)]

consume(r, amt) == [r EXCEPT !.pos = r.pos + amt]

\* a Take that hands on the whole buffer of the inner reader
take_uncapped(fb, limit) == fb

\* io::Take::fill_buf: with no allowance left the inner reader is not asked
take_cap(fb, limit) ==
    IF fb.ok THEN [fb EXCEPT !.buf = SubSeq(fb.buf, 1, Min(Len(fb.buf), limit))] ELSE fb

take_fill_buf(r, limit) ==
    IF limit = 0 THEN [ok |-> TRUE, r |-> r, buf |-> << >>]
    ELSE take_cap(fill_buf(r), limit)

(* The writer: a Vec<u8> takes every byte; a file takes at most `chunk`    *)
(* bytes per write, fails the write issued after failAt bytes, and reports *)
(* 0 bytes for the write issued after zeroAt bytes.                        *)

VecWriter == [kind |-> "Vec", out |-> << >>, chunk |-> 0, failAt |-> None, zeroAt |-> None]
FileWriter(chunk, failAt, zeroAt) ==
    [kind |-> "File", out |-> << >>, chunk |-> chunk, failAt |-> failAt, zeroAt |-> zeroAt]

write(w, buf) ==
    IF w.kind = "Vec"
    THEN [ok |-> TRUE, n |-> Len(buf), w |-> [w EXCEPT !.out = w.out \o buf]]
    ELSE IF Len(w.out) = w.failAt THEN [ok |-> FALSE, n |-> 0, w |-> w]
    ELSE IF Len(w.out) = w.zeroAt THEN [ok |-> TRUE, n |-> 0, w |-> w]
    ELSE LET k == Min(Len(buf), w.chunk)
         IN  [ok |-> TRUE, n |-> k, w |-> [w EXCEPT !.out = w.out \o SubSeq(buf, 1, k)]]

----------------------------------------------------------------------------
(* try_write_all, try_copy_buf, try_copy_limited.  Each returns the        *)
(* SaveResult together with the reader and the writer as it leaves them.   *)

\* a try_here! that does not look at the count
try_here_partial(total_copied, e) == Partial(total_copied, "IoError", e)

\* the try_here! of both loops: Error before the first byte, Partial after it
try_here(total_copied, e) ==
    IF total_copied = 0 THEN Error(e) ELSE Partial(total_copied, "IoError", e)

RECURSIVE try_write_all_loop(_, _, _)
\* lines 850-857: what the loop does with the outcome `wr` of dest.write(buf)
written(wr, buf, total_copied) ==
    IF ~wr.ok THEN [res |-> try_here(total_copied, "Other"), w |-> wr.w]
    ELSE IF wr.n = 0 THEN [res |-> try_here(total_copied, "WriteZero"), w |-> wr.w]
    ELSE try_write_all_loop(Drop(buf, wr.n), wr.w, total_copied + wr.n)

try_write_all_loop(buf, dest, total_copied) ==
    IF buf = << >> THEN [res |-> Full(total_copied), w |-> dest]
    ELSE written(write(dest, buf), buf, total_copied)

try_write_all(buf, dest) == try_write_all_loop(buf, dest, 0)

\* `limit` is the allowance of the io::Take wrapped round src, None without one
RECURSIVE try_copy_buf_loop(_, _, _, _)
\* lines 820-829: what the loop does with the outcome `wa` of try_write_all
copied(fb, wa, limit, total_copied) ==
    CASE wa.res.tag = "Full" ->
            try_copy_buf_loop(consume(fb.r, wa.res.val),
                              IF limit = None THEN None ELSE limit - wa.res.val,
                              wa.w, total_copied + wa.res.val)
      [] wa.res.tag = "Partial" ->
            [res |-> Partial(total_copied + wa.res.val, wa.res.reason, wa.res.err),
             r |-> consume(fb.r, wa.res.val), w |-> wa.w]
      [] wa.res.tag = "Error" ->
            [res |-> Partial(total_copied, "IoError", wa.res.err), r |-> fb.r, w |-> wa.w]

\* lines 814-818: what the loop does with the outcome `fb` of src.fill_buf()
filled(fb, limit, dest, total_copied) ==
    IF ~fb.ok THEN [res |-> try_here(total_copied, "Other"), r |-> fb.r, w |-> dest]
    ELSE IF fb.buf = << >> THEN [res |-> Full(total_copied), r |-> fb.r, w |-> dest]
    ELSE copied(fb, try_write_all(fb.buf, dest), limit, total_copied)

try_copy_buf_loop(src, limit, dest, total_copied) ==
    filled(IF limit = None THEN fill_buf(src) ELSE take_fill_buf(src, limit),
           limit, dest, total_copied)

try_copy_buf(src, limit, dest) == try_copy_buf_loop(src, limit, dest, 0)

\* lines 792-796: the peek `fb` after a copy `c` that ended Full
peeked(c, fb) ==
    [res |-> IF ~fb.ok THEN Partial(c.res.val, "IoError", "Other")
             ELSE IF fb.buf = << >> THEN Full(c.res.val)
             ELSE Partial(c.res.val, "SizeLimit", "None"),
     r |-> fb.r, w |-> c.w]

\* line 789: try_full! of the copy `c`
copy_limited(c) == IF c.res.tag # "Full" THEN c ELSE peeked(c, fill_buf(c.r))

try_copy_limited(src, dest, limit) == copy_limited(try_copy_buf(src, limit, dest))

----------------------------------------------------------------------------
(* SavedData and the SaveBuilder's options.                                *)

Text(string) == [kind |-> "Text", string |-> string, bytes |-> << >>, path |-> None, size |-> 0]
Bytes(bytes) == [kind |-> "Bytes", string |-> << >>, bytes |-> bytes, path |-> None, size |-> 0]
File(path, size) == [kind |-> "File", string |-> << >>, bytes |-> << >>, path |-> path, size |-> size]

\* SavedData::size
size(data) ==
    CASE data.kind = "Text"  -> Len(as_bytes(data.string))
      [] data.kind = "Bytes" -> Len(data.bytes)
      [] data.kind = "File"  -> data.size

\* SavedData::add_size; the sizes of the model stay far below u64::MAX, where
\* saturating_add is addition
add_size(data, add) ==
    IF data.kind = "File" THEN File(data.path, data.size + add) ELSE data

TextPolicy == {"Try", "Force", "Ignore"}

\* SaveBuilder::new
new ==
    [open_opts |-> [write |-> TRUE, append |-> FALSE, truncate |-> FALSE,
                    create |-> FALSE, create_new |-> TRUE],
     size_limit |-> None,
     count_limit |-> None,
     memory_threshold |-> DEFAULT_MEMORY_THRESHOLD,
     text_policy |-> "Try"]

size_limit(self, limit) == [self EXCEPT !.size_limit = limit]
count_limit(self, limit) == [self EXCEPT !.count_limit = limit]
memory_threshold(self, threshold) == [self EXCEPT !.memory_threshold = threshold]
try_text(self) == [self EXCEPT !.text_policy = "Try"]
force_text(self) == [self EXCEPT !.text_policy = "Force"]
ignore_text(self) == [self EXCEPT !.text_policy = "Ignore"]

\* std::fs::OpenOptions (lines 110, 134-138): the flags that decide how a
\* file is opened for writing.  `read` makes no difference to a save.
OpenOptions ==
    [write : BOOLEAN, append : BOOLEAN, truncate : BOOLEAN, create : BOOLEAN,
     create_new : BOOLEAN]

Flags == {"write", "append", "truncate", "create", "create_new"}

\* the closures FnOnce(&mut OpenOptions) a caller passes: each sets or clears
\* a flag.  A closure that changes several flags does what one call of
\* mod_open_opts per flag does.
OptsFns ==
    {[o \in OpenOptions |-> [o EXCEPT ![f] = v]] : f \in Flags, v \in BOOLEAN}

\* mod_open_opts without `self.open_opts.write(true)`
mod_open_opts_raw(self, opts_fn) ==
    [self EXCEPT !.open_opts = opts_fn[@]]

\* SaveBuilder::mod_open_opts
mod_open_opts(self, opts_fn) ==
    [self EXCEPT !.open_opts = [opts_fn[@] EXCEPT !.write = TRUE]]

----------------------------------------------------------------------------
(* The single-field save.                                                  *)

write_to(self, src, dest) ==
    IF self.size_limit # None
    THEN try_copy_limited(src, dest, self.size_limit)
    ELSE try_copy_buf(src, None, dest)

\* line 400: `.map(move |_| bytes)` of the bounded copy `c`
mem_limited(c) ==
    [res |-> CASE c.res.tag = "Full" -> Full([bytes |-> c.w.out, end |-> TRUE])
               [] c.res.tag = "Partial" -> Partial(c.w.out, c.res.reason, c.res.err)
               [] c.res.tag = "Error" -> c.res,
     r |-> c.r]

\* lines 403-408: the match on the copy `c` of memory_threshold bytes
mem_threshold(c) ==
    [res |-> CASE c.res.tag = "Full" -> Full([bytes |-> c.w.out, end |-> TRUE])
               [] c.res.tag = "Partial" /\ c.res.reason = "SizeLimit" ->
                    Full([bytes |-> c.w.out, end |-> FALSE])
               [] c.res.tag = "Partial" /\ c.res.reason # "SizeLimit" ->
                    Partial(c.w.out, c.res.reason, c.res.err)
               [] c.res.tag = "Error" -> c.res,
     r |-> c.r]

\* save_mem without the bounded copy of lines 399-401
save_mem_unbounded(self, src) ==
    mem_threshold(try_copy_limited(src, VecWriter, self.memory_threshold))

\* Full carries [bytes, end]; Partial carries the bytes
save_mem(self, src) ==
    IF self.size_limit # None /\ self.size_limit < self.memory_threshold
    THEN mem_limited(write_to(self, src, VecWriter))
    ELSE mem_threshold(try_copy_limited(src, VecWriter, self.memory_threshold))

(* What the filesystem does to one save: the file takes at most `chunk`    *)
(* bytes per write; `fault` is the one condition of the run, if any:       *)
(* "read" (the body stream fails at offset `at`), "mkdir" (the filesystem  *)
(* refuses to make the directory of the file), "open" (the filesystem      *)
(* refuses the open), "taken" (the destination path is taken by a file),   *)
(* "write" (the file fails the write after `at` bytes), "zero" (a write    *)
(* reports 0 bytes after `at` bytes).                                      *)
NoFault == [kind |-> "none", at |-> None]

FaultAt(fault, kind) == IF fault.kind = kind THEN fault.at ELSE None

\* the file a taken path holds: longer than any body, of a byte no body has
OldFile == [i \in 1..(MaxLen + 1) |-> 119]

\* the file at the destination path before the save: None or Some(content)
Existing(env) == IF env.fault.kind = "taken" THEN <<OldFile>> ELSE << >>

\* OpenOptions::open refuses the flags before it asks the filesystem: no
\* write access, or append together with truncate (create_new aside)
invalid(open_opts) ==
    \/ ~open_opts.write /\ ~open_opts.append
    \/ open_opts.append /\ open_opts.truncate /\ ~open_opts.create_new

\* the open of a path that holds `old`, the flags being valid: create_new
\* wants the path free; without it a free path needs create, and a file
\* there is opened as it is, or emptied by truncate
open_path(open_opts, old) ==
    CASE open_opts.create_new /\ old # << >> -> Err("AlreadyExists")
      [] open_opts.create_new /\ old = << >> -> Ok(<< >>)
      [] ~open_opts.create_new /\ old = << >> /\ ~open_opts.create -> Err("NotFound")
      [] ~open_opts.create_new /\ old = << >> /\ open_opts.create -> Ok(<< >>)
      [] ~open_opts.create_new /\ old # << >> /\ open_opts.truncate -> Ok(<< >>)
      [] ~open_opts.create_new /\ old # << >> /\ ~open_opts.truncate -> Ok(old[1])

\* lines 778-786, create_dir_all(path): fs::create_dir_all on the parent of
\* the path, which the filesystem can refuse
create_dir_all(fault) == IF fault.kind = "mkdir" THEN Err("Other") ELSE Ok(<< >>)

\* self.open_opts.open(&path) where the path holds `old`: the flags are
\* checked before the filesystem is asked
open_file(open_opts, old, fault) ==
    CASE invalid(open_opts) -> Err("InvalidInput")
      [] ~invalid(open_opts) /\ fault.kind = "open" -> Err("Other")
      [] ~invalid(open_opts) /\ fault.kind # "open" -> open_path(open_opts, old)

\* line 371: `create_dir_all(&path).and_then(|_| self.open_opts.open(&path))`:
\* the directory comes first and its failure is the failure returned; only
\* then is the file opened.  Ok carries the content of the file opened.
open(open_opts, old, fault) ==
    IF create_dir_all(fault).ok
    THEN open_file(open_opts, old, fault)
    ELSE create_dir_all(fault)

\* the file after the save wrote to it: with append the bytes written follow
\* what the file held; without, they lie at its start and what the file held
\* beyond them stays
landed(o, old, append) ==
    [o EXCEPT !.file = IF append THEN old \o @ ELSE @ \o Drop(old, Len(@))]

\* line 378: `self.write_to(file).map(move |written| data.add_size(written))`
spill_rest(data, c) ==
    [res |-> map(c.res, [n \in Nat |-> add_size(data, n)]), r |-> c.r,
     opened |-> TRUE, file |-> c.w.out]

\* lines 376-378: after the write `wa` of the buffered bytes
spill_buffered(self, wa, src, path) ==
    CASE wa.res.tag = "Error" ->
            [res |-> wa.res, r |-> src, opened |-> TRUE, file |-> wa.w.out]
      [] wa.res.tag = "Partial" ->
            [res |-> Partial(File(path, wa.res.val), wa.res.reason, wa.res.err),
             r |-> src, opened |-> TRUE, file |-> wa.w.out]
      [] wa.res.tag = "Full" ->
            spill_rest(File(path, wa.res.val), write_to(self, src, wa.w))

\* lines 371-378 of with_path after the open returned `f`
spill_opened(self, f, bytes, src, path, env) ==
    IF ~f.ok
    THEN [res |-> Error(f.err[1]), r |-> src, opened |-> FALSE, file |-> << >>]
    ELSE landed(spill_buffered(self,
                    try_write_all(bytes, FileWriter(env.chunk, FaultAt(env.fault, "write"),
                                                    FaultAt(env.fault, "zero"))),
                    src, path),
                f.val[1], self.open_opts.append)

\* lines 369-378 of with_path: the spill of `bytes` and the rest of the stream
spill(self, bytes, src, path, env) ==
    spill_opened(self, open(self.open_opts, Existing(env), env.fault), bytes, src, path, env)

\* a return of with_path before any file is opened
in_memory(res, r) == [res |-> res, r |-> r, opened |-> FALSE, file |-> << >>]

\* lines 357-378: the text policy on the buffered `bytes`, decoded as `utf8`
text_or_spill(self, bytes, utf8, src, path, env) ==
    CASE self.text_policy = "Try" /\ utf8.ok -> in_memory(Full(Text(utf8.string)), src)
      [] self.text_policy = "Force" /\ utf8.ok -> in_memory(Full(Text(utf8.string)), src)
      [] self.text_policy = "Force" /\ ~utf8.ok -> in_memory(Error("InvalidData"), src)
      [] OTHER -> spill(self, bytes, src, path, env)

\* lines 349-378: with_path after save_mem returned `sm`
saved_mem(self, sm, path, env) ==
    CASE sm.res.tag = "Error" -> in_memory(sm.res, sm.r)
      [] sm.res.tag = "Partial" ->
            in_memory(Partial(Bytes(sm.res.val), sm.res.reason, sm.res.err), sm.r)
      [] sm.res.tag = "Full" /\ sm.res.val.end ->
            in_memory(Full(Bytes(sm.res.val.bytes)), sm.r)
      [] sm.res.tag = "Full" /\ ~sm.res.val.end ->
            text_or_spill(self, sm.res.val.bytes, from_utf8(sm.res.val.bytes),
                          sm.r, path, env)

with_path(self, src, path, env) == saved_mem(self, save_mem(self, src), path, env)

----------------------------------------------------------------------------
(* State.                                                                  *)

VARIABLES
    builder,    \* the SaveBuilder's options
    source,     \* single-field save: the field's body stream
    fs,         \* what the filesystem does to the save: [chunk, fault]
    disk,       \* the files created so far: disk[path] is the file's content
    result,     \* the SaveResult returned; tag "Pending" until the save returns
    savable,    \* whole-request save: the entries the source has delivered
    entries,    \* whole-request save: the Entries being filled
    count,      \* whole-request save: the loop's `count`
    copy,       \* copy primitives: the frame of the running call
    irq,        \* copy primitives: the interrupted calls so far
    save_dir,   \* save directory: the SaveDir value and who holds it
    dirs,       \* save directory: the directories on disk, each with its files
    handles,    \* save directory: the paths of the destination files held open
    out         \* the last call made on a returned value, with what it returned

copyVars == <<copy, irq>>
dirVars == <<save_dir, dirs, handles>>

vars == <<builder, source, fs, disk, result, savable, entries, count,
          copy, irq, save_dir, dirs, handles, out>>

Pending == [tag |-> "Pending", val |-> None, reason |-> "None", err |-> "None"]

Faults ==
    {NoFault} \cup {[kind |-> k, at |-> None] : k \in {"mkdir", "open", "taken"}}
       \cup {[kind |-> k, at |-> a] : k \in {"read", "write", "zero"}, a \in 0..MaxLen}

Filesystems == {[chunk |-> c, fault |-> f] : c \in 1..MaxChunk, f \in Faults}

\* the filesystems of a field saved alone: any chunk when nothing fails, on a
\* free and on a taken path; one byte at a time with a fault, which is within
\* the body: a read fails at any offset, a write before the last byte is
\* out, a write reports 0 bytes at the start
FieldFilesystems ==
    {env \in Filesystems :
        \/ env.fault.kind \in {"none", "taken"}
        \/ env.chunk = 1 /\ env.fault.kind \in {"mkdir", "open"}
        \/ env.chunk = 1 /\ env.fault.kind = "read" /\ env.fault.at <= MaxBody
        \/ env.chunk = 1 /\ env.fault.kind = "write" /\ env.fault.at < MaxBody
        \/ env.chunk = 1 /\ env.fault.kind = "zero" /\ env.fault.at = 0}

NoSource == Reader(<< >>, 1, None)

\* no write issued yet
NoWrite == [buf |-> << >>, kind |-> "none", n |-> 0]

\* no copy running
NoCopy ==
    [op |-> "none", pc |-> "done", dest |-> VecWriter, buf |-> << >>, written |-> 0,
     res |-> Pending, total_copied |-> 0, limit |-> None, last |-> NoWrite]

\* no save directory
NoDir == [kind |-> "none", path |-> None, owner |-> "none"]

\* no call made yet on the value returned
NoCall == [op |-> "none", ok |-> TRUE, val |-> << >>, err |-> << >>]

----------------------------------------------------------------------------
(* The single-field save: a builder from MultipartData::save(), any        *)
(* sequence of setters, then with_path.                                    *)

InitField ==
    /\ builder = new
    /\ fs \in FieldFilesystems
    /\ source \in {Reader(d, fs.chunk, FaultAt(fs.fault, "read")) : d \in Bodies}
    /\ disk = Existing(fs)
    /\ result = Pending
    /\ savable = << >>
    /\ entries = [fields |-> << >>]
    /\ count = 0
    /\ copy = NoCopy
    /\ irq = 0
    /\ save_dir = NoDir
    /\ dirs = << >>
    /\ handles = {}
    /\ out = NoCall

SetSizeLimit ==
    /\ result = Pending
    /\ \E limit \in {None} \cup 0..MaxBody : builder' = size_limit(builder, limit)
    /\ UNCHANGED <<source, fs, disk, result, savable, entries, count>>
    /\ UNCHANGED <<copyVars, dirVars, out>>

SetMemoryThreshold ==
    /\ result = Pending
    /\ \E threshold \in 0..MaxBody : builder' = memory_threshold(builder, threshold)
    /\ UNCHANGED <<source, fs, disk, result, savable, entries, count>>
    /\ UNCHANGED <<copyVars, dirVars, out>>

TryText ==
    /\ result = Pending
    /\ builder' = try_text(builder)
    /\ UNCHANGED <<source, fs, disk, result, savable, entries, count>>
    /\ UNCHANGED <<copyVars, dirVars, out>>

ForceText ==
    /\ result = Pending
    /\ builder' = force_text(builder)
    /\ UNCHANGED <<source, fs, disk, result, savable, entries, count>>
    /\ UNCHANGED <<copyVars, dirVars, out>>

IgnoreText ==
    /\ result = Pending
    /\ builder' = ignore_text(builder)
    /\ UNCHANGED <<source, fs, disk, result, savable, entries, count>>
    /\ UNCHANGED <<copyVars, dirVars, out>>

ModOpenOpts ==
    /\ result = Pending
    /\ \E opts_fn \in OptsFns : builder' = mod_open_opts(builder, opts_fn)
    /\ UNCHANGED <<source, fs, disk, result, savable, entries, count>>
    /\ UNCHANGED <<copyVars, dirVars, out>>

\* the files on disk after a save that returned `o` for the file at `path`
stored(files, path, o) ==
    CASE ~o.opened -> files
      [] o.opened /\ path \in DOMAIN files -> [files EXCEPT ![path] = o.file]
      [] o.opened /\ path \notin DOMAIN files -> Append(files, o.file)

\* the return `o` of with_path: the result, the stream and the file it leaves
Returns(o) ==
    /\ result' = o.res
    /\ source' = o.r
    /\ disk' = stored(disk, 1, o)

\* the destination is the first path of the disk, free or taken
WithPath ==
    /\ result = Pending
    /\ Returns(with_path(builder, source, 1, fs))
    /\ UNCHANGED <<builder, fs, savable, entries, count>>
    /\ UNCHANGED <<copyVars, dirVars, out>>

NextField ==
    \/ SetSizeLimit
    \/ SetMemoryThreshold
    \/ TryText
    \/ ForceText
    \/ IgnoreText
    \/ ModOpenOpts
    \/ WithPath

SpecField == InitField /\ [][NextField]_vars

----------------------------------------------------------------------------
(* The builder's configuration: a builder from SaveBuilder::new and any    *)
(* sequence of its setters.                                                *)

InitBuilder ==
    /\ builder = new
    /\ fs = [chunk |-> 1, fault |-> NoFault]
    /\ source = NoSource
    /\ disk = << >>
    /\ result = Pending
    /\ savable = << >>
    /\ entries = [fields |-> << >>]
    /\ count = 0
    /\ copy = NoCopy
    /\ irq = 0
    /\ save_dir = NoDir
    /\ dirs = << >>
    /\ handles = {}
    /\ out = NoCall

SetCountLimit ==
    /\ result = Pending
    /\ \E limit \in {None} \cup 0..MaxFields : builder' = count_limit(builder, limit)
    /\ UNCHANGED <<source, fs, disk, result, savable, entries, count>>
    /\ UNCHANGED <<copyVars, dirVars, out>>

NextBuilder ==
    \/ SetSizeLimit
    \/ SetCountLimit
    \/ SetMemoryThreshold
    \/ TryText
    \/ ForceText
    \/ IgnoreText
    \/ ModOpenOpts

SpecBuilder == InitBuilder /\ [][NextBuilder]_vars

----------------------------------------------------------------------------
(* The whole-request save: with_entries over the entries the source        *)
(* delivers, one action per iteration of its loop.                         *)

Names == {"a", "b"}

\* the text of an already decoded text field: "hi"
TextValues == {<<104, 105>>}

\* Option<T>: None is the empty sequence, Some(v) the sequence of v
Some(v) == <<v>>

SavedField(name, id, data) == [headers |-> [name |-> name, id |-> id], data |-> data]

\* Entries::mut_files_for: the Vec of `field`, inserted empty when missing
mut_files_for(fields, field) ==
    IF field \in DOMAIN fields THEN fields ELSE fields @@ (field :> << >>)

\* the Vec of `field` inserted, the record not pushed
push_key_only(fields, field, saved) == mut_files_for(fields, field)

\* `.push(saved)` on the Vec mut_files_for returns
push(fields, field, saved) ==
    [mut_files_for(fields, field) EXCEPT ![field] = Append(@, saved)]

PartialEntries(ents, partial_file) == [entries |-> ents, partial_file |-> partial_file]

PartialSavedField(name, src, dest) == [field_name |-> name, source |-> src, dest |-> dest]

\* line 269: `file.save().size_limit(self.size_limit)`, the builder a file
\* field is saved with: MultipartData::save() is SaveBuilder::new(file)
field_builder(self) == size_limit(new, self.size_limit)

\* SaveBuilder::fork: the same options, another savable
fork(self) ==
    [open_opts |-> self.open_opts,
     size_limit |-> self.size_limit,
     count_limit |-> self.count_limit,
     memory_threshold |-> self.memory_threshold,
     text_policy |-> self.text_policy]

\* the count limit tested one field late
count_limit_hit_late(self, cnt) == self.count_limit # None /\ cnt > self.count_limit

\* lines 252-253: `Some(limit) if count >= limit`
count_limit_hit(self, cnt) == self.count_limit # None /\ cnt >= self.count_limit

\* a count limit that does not end the loop
count_limit_ignored(ents, name, file) == Pending

\* lines 253-263: the return at the count limit, the file's stream untouched
count_limit_result(ents, name, file) ==
    Partial(PartialEntries(ents, Some(PartialSavedField(name, file, << >>))),
            "CountLimit", "None")

\* a field save's Error handed on as the request's Error
partial_result_err(ents, name, id, o) ==
    IF o.res.tag = "Partial"
    THEN Partial(PartialEntries(ents,
                    Some(PartialSavedField(name, o.r, Some(SavedField(name, id, o.res.val))))),
                 o.res.reason, o.res.err)
    ELSE Error(o.res.err)

\* lines 274-295: the return after a field save `o` that did not end Full
partial_result(ents, name, id, o) ==
    IF o.res.tag = "Partial"
    THEN Partial(PartialEntries(ents,
                    Some(PartialSavedField(name, o.r, Some(SavedField(name, id, o.res.val))))),
                 o.res.reason, o.res.err)
    ELSE Partial(PartialEntries(ents, Some(PartialSavedField(name, o.r, << >>))),
                 "IoError", o.res.err)

(* The requests of the model.  A file field's body either fits the default *)
(* threshold or is as long as a body gets, in ASCII or in bytes that are   *)
(* not UTF-8; its filesystem hands over one byte at a time and has at most *)
(* one fault, early in the save.  The file of a field gets a random name   *)
(* of its own (rand_filename, line 337): its path is free.                 *)
EntryBodies ==
    {[i \in 1..DEFAULT_MEMORY_THRESHOLD |-> 65]}
        \cup {[i \in 1..MaxLen |-> b] : b \in {65, 195}}

EntryFilesystems ==
    {env \in Filesystems :
        env.chunk = 1 /\ env.fault.kind \notin {"zero", "taken"} /\ env.fault.at <= 2}

EntryBuilders ==
    {size_limit(count_limit(b, c), l) :
        b \in {new, memory_threshold(new, 0), force_text(new), ignore_text(new)},
        c \in {None} \cup 0..(MaxFields - 1),
        l \in {None, 1}}

InitEntries ==
    /\ builder \in EntryBuilders
    /\ fs = [chunk |-> 1, fault |-> NoFault]
    /\ source = NoSource
    /\ disk = << >>
    /\ result = Pending
    /\ savable = << >>
    /\ entries = [fields |-> << >>]
    /\ count = 0
    /\ copy = NoCopy
    /\ irq = 0
    /\ save_dir = NoDir
    /\ dirs = << >>
    /\ handles = {}
    /\ out = NoCall

\* ReadEntryResult::End
SourceEnd ==
    /\ result = Pending
    /\ handles = {}
    /\ result' = Full(entries)
    /\ UNCHANGED <<builder, source, fs, disk, savable, entries, count>>
    /\ UNCHANGED <<copyVars, dirVars, out>>

\* ReadEntryResult::Error
SourceError ==
    /\ result = Pending
    /\ handles = {}
    /\ result' = Partial(PartialEntries(entries, << >>), "IoError", "Other")
    /\ UNCHANGED <<builder, source, fs, disk, savable, entries, count>>
    /\ UNCHANGED <<copyVars, dirVars, out>>

\* ReadEntryResult::Entry with MultipartData::Text
TextEntry ==
    /\ result = Pending
    /\ handles = {}
    /\ Len(savable) < MaxFields
    /\ \E name \in Names, text \in TextValues :
          /\ savable' = Append(savable, [name |-> name, kind |-> "Text", body |-> text])
          /\ entries' = [entries EXCEPT !.fields =
                            push(@, name, SavedField(name, Len(savable) + 1, Text(text)))]
    /\ UNCHANGED <<builder, source, fs, disk, result, count>>
    /\ UNCHANGED <<copyVars, dirVars, out>>

\* lines 270-296: the match on what the field save returned, `o`
Recorded(name, id, o) ==
    IF o.res.tag = "Full"
    THEN /\ entries' = [entries EXCEPT !.fields =
                           push(@, name, SavedField(name, id, o.res.val))]
         /\ UNCHANGED result
    ELSE /\ result' = partial_result(entries, name, id, o)
         /\ UNCHANGED entries

\* lines 267-296: the field save returned `o`
FieldSaved(name, id, o) ==
    /\ count' = count + 1
    /\ disk' = stored(disk, Len(disk) + 1, o)
    /\ Recorded(name, id, o)

\* lines 251-297: the file field `name` with the body stream `file`
SaveFile(name, file, env) ==
    IF count_limit_hit(builder, count)
    THEN /\ result' = count_limit_result(entries, name, file)
         /\ UNCHANGED <<disk, entries, count>>
    ELSE FieldSaved(name, Len(savable) + 1,
                    with_path(field_builder(builder), file, Len(disk) + 1, env))

\* ReadEntryResult::Entry with MultipartData::File, on one of the
\* filesystems `envs`
FileEntryOn(envs) ==
    /\ result = Pending
    /\ handles = {}
    /\ Len(savable) < MaxFields
    /\ \E name \in Names, body \in EntryBodies, env \in envs :
          /\ savable' = Append(savable, [name |-> name, kind |-> "File", body |-> body])
          /\ SaveFile(name, Reader(body, env.chunk, FaultAt(env.fault, "read")), env)
    /\ UNCHANGED <<builder, source, fs>>
    /\ UNCHANGED <<copyVars, dirVars, out>>

FileEntry == FileEntryOn(EntryFilesystems)

NextEntries ==
    \/ SourceEnd
    \/ SourceError
    \/ TextEntry
    \/ FileEntry

SpecEntries == InitEntries /\ [][NextEntries]_vars

(* The whole-request save where nothing fails: the source delivers its     *)
(* fields and ends, and the filesystem does all it is asked.               *)
FileEntryNoFailure == FileEntryOn({[chunk |-> 1, fault |-> NoFault]})

NextNoFailure ==
    \/ SourceEnd
    \/ TextEntry
    \/ FileEntryNoFailure

SpecNoFailure == InitEntries /\ [][NextNoFailure]_vars

(* The whole-request save with the save of a file field in two steps: up   *)
(* to the open of its destination file (line 371), and from there to the   *)
(* return of with_path, where the File, a local of with_path moved into    *)
(* write_to, is dropped and so closed.  `handles` holds the paths open,    *)
(* `fs` the filesystem of the field being saved.                           *)
InitHandles ==
    /\ InitEntries
    /\ builder \in {size_limit(count_limit(new, c), l) :
                       c \in {None} \cup 0..(MaxFields - 1), l \in {None, 1}}

\* lines 267-371: the field save opened its file, or returned `o` without
FileOpened(name, id, path, o) ==
    IF o.opened
    THEN /\ count' = count + 1
         /\ disk' = Append(disk, << >>)
         /\ handles' = {path}
         /\ UNCHANGED <<result, entries>>
    ELSE /\ FieldSaved(name, id, o)
         /\ UNCHANGED handles

\* ReadEntryResult::Entry with MultipartData::File, up to line 371
FileOpens ==
    /\ result = Pending
    /\ handles = {}
    /\ Len(savable) < MaxFields
    /\ \E name \in Names, body \in EntryBodies, env \in EntryFilesystems :
          /\ savable' = Append(savable, [name |-> name, kind |-> "File", body |-> body])
          /\ fs' = env
          /\ IF count_limit_hit(builder, count)
             THEN /\ result' = count_limit_result(entries, name,
                                    Reader(body, env.chunk, FaultAt(env.fault, "read")))
                  /\ UNCHANGED <<disk, entries, count, handles>>
             ELSE FileOpened(name, Len(savable) + 1, Len(disk) + 1,
                             with_path(field_builder(builder),
                                       Reader(body, env.chunk, FaultAt(env.fault, "read")),
                                       Len(disk) + 1, env))
    /\ UNCHANGED <<builder, source, copyVars, save_dir, dirs, out>>

\* lines 376-379 and 270-296: the writes to the open file, its close on the
\* return of with_path, and the match on what the field save returned
FileClosed(name, id, path, o) ==
    /\ disk' = stored(disk, path, o)
    /\ handles' = handles \ {path}
    /\ Recorded(name, id, o)

FileCloses ==
    /\ result = Pending
    /\ \E path \in handles :
          FileClosed(savable[Len(savable)].name, Len(savable), path,
                     with_path(field_builder(builder),
                               Reader(savable[Len(savable)].body, fs.chunk,
                                      FaultAt(fs.fault, "read")),
                               path, fs))
    /\ UNCHANGED <<builder, source, fs, savable, count, copyVars, save_dir, dirs, out>>

NextHandles ==
    \/ SourceEnd
    \/ SourceError
    \/ TextEntry
    \/ FileOpens
    \/ FileCloses

SpecHandles == InitHandles /\ [][NextHandles]_vars

----------------------------------------------------------------------------
(* The copy primitives step by step: one action per call a copy makes on   *)
(* its reader or its writer, and one for the match of try_copy_buf on what *)
(* try_write_all returned.  `copy` is the frame of the running call:       *)
(*   op            try_write_all, try_copy_buf or try_copy_limited         *)
(*   pc            the call the frame is about to make, "done" on return   *)
(*   dest          the writer                                              *)
(*   buf, written  try_write_all's `buf` and `total_copied`                *)
(*   res           what try_write_all returned                             *)
(*   total_copied  try_copy_buf's `total_copied`                           *)
(*   limit         what is left of the io::Take's allowance, None without  *)
(*   last          the last write issued: its buffer and its outcome       *)
(* A read of the connection or a write to the file may be interrupted      *)
(* (io::ErrorKind::Interrupted); `irq` counts the interrupted calls.       *)

\* most interrupted calls in one copy
MaxInterrupts == 2

CopyOps == {"try_write_all", "try_copy_buf", "try_copy_limited"}

\* the body a copy runs on: n bytes, all different: 'A', 'B', ...
CopyBody(n) == [i \in 1..n |-> 64 + i]

\* the frame on entry: `let mut total_copied = 0` (lines 800, 836)
Frame(op, buf, dest, limit) ==
    [op |-> op, pc |-> IF op = "try_write_all" THEN "write" ELSE "fill_buf",
     dest |-> dest, buf |-> buf, written |-> 0, res |-> Pending,
     total_copied |-> 0, limit |-> limit, last |-> NoWrite]

\* fill_buf has nothing buffered and asks the connection
reads(r, limit) == r.pos >= r.bufEnd /\ limit # 0

\* an interrupted call that makes the loop start over from its first statement
continue_reset(c) == [c EXCEPT !.written = 0, !.total_copied = 0]

\* lines 806, 842: `Err(ref e) if e.kind() == Interrupted => continue`
continue(c) == c

\* try_write_all returns `res`: to its caller, or to the match of try_copy_buf
write_all_returns(c, res) ==
    [c EXCEPT !.pc = IF c.op = "try_write_all" THEN "done" ELSE "match", !.res = res]

\* lines 850-857: the outcome `wr` of dest.write(buf)
write_all_step(c, wr) ==
    IF ~wr.ok THEN write_all_returns(c, try_here(c.written, "Other"))
    ELSE IF wr.n = 0 THEN write_all_returns(c, try_here(c.written, "WriteZero"))
    ELSE [c EXCEPT !.buf = Drop(c.buf, wr.n), !.written = c.written + wr.n, !.dest = wr.w]

\* the write issued with `buf`, as the writer answered it
issued(buf, wr) ==
    [buf |-> buf, kind |-> IF wr.ok THEN "ok" ELSE "err", n |-> wr.n]

\* a chunk consumed whole, whatever part of it was written
consume_chunk(src, res) == consume(src, src.bufEnd - src.pos)

\* lines 821, 823: `src.consume(copied)`; nothing is consumed in the Error arm
consume_copied(src, res) ==
    IF res.tag = "Error" THEN src ELSE consume(src, res.val)

\* lines 821, 823: `total_copied += copied`
add_copied(c) ==
    IF c.res.tag = "Error" THEN c
    ELSE [c EXCEPT !.total_copied = c.total_copied + c.res.val,
                   !.limit = IF c.limit = None THEN None ELSE c.limit - c.res.val]

\* lines 820-829: what try_copy_buf returns for a try_write_all that did not
\* end Full, `c` holding the count after `total_copied += copied`
match_returns(c) ==
    IF c.res.tag = "Partial"
    THEN Partial(c.total_copied, c.res.reason, c.res.err)
    ELSE Partial(c.total_copied, "IoError", c.res.err)

\* try_copy_buf returns `res`: line 789 passes a Full on to the peek
CopyBufReturns(res) ==
    IF copy.op = "try_copy_limited" /\ res.tag = "Full"
    THEN copy' = [copy EXCEPT !.pc = "peek"] /\ UNCHANGED result
    ELSE copy' = [copy EXCEPT !.pc = "done"] /\ result' = res

\* the caller's buffer of a try_write_all: a stream with all of `data` buffered
Buffered(data) == [Reader(data, 1, None) EXCEPT !.bufEnd = Len(data)]

\* write_to (lines 388-394) calls try_copy_limited with the builder's
\* size_limit and try_copy_buf without one; try_write_all is called with the
\* whole of a buffer
InitCopy ==
    /\ fs \in {env \in Filesystems : env.fault.kind \notin {"mkdir", "open", "taken"}}
    /\ \E op \in CopyOps, n \in 0..MaxLen, chunk \in 1..MaxChunk, limit \in 0..MaxLen :
          /\ builder = size_limit(new, IF op = "try_copy_limited" THEN limit ELSE None)
          /\ source = IF op = "try_write_all" THEN Buffered(CopyBody(n))
                      ELSE Reader(CopyBody(n), chunk, FaultAt(fs.fault, "read"))
          /\ copy = Frame(op, IF op = "try_write_all" THEN CopyBody(n) ELSE << >>,
                          FileWriter(fs.chunk, FaultAt(fs.fault, "write"),
                                     FaultAt(fs.fault, "zero")),
                          builder.size_limit)
    /\ irq = 0
    /\ disk = << >>
    /\ result = Pending
    /\ savable = << >>
    /\ entries = [fields |-> << >>]
    /\ count = 0
    /\ save_dir = NoDir
    /\ dirs = << >>
    /\ handles = {}
    /\ out = NoCall

\* lines 814-817: what the loop does with the outcome `fb` of src.fill_buf()
Filled(fb) ==
    /\ source' = fb.r
    /\ IF ~fb.ok THEN CopyBufReturns(try_here(copy.total_copied, "Other"))
       ELSE IF fb.buf = << >> THEN CopyBufReturns(Full(copy.total_copied))
       ELSE /\ copy' = [copy EXCEPT !.pc = "write", !.buf = fb.buf, !.written = 0]
            /\ UNCHANGED result

\* line 815: src.fill_buf()
FillBuf ==
    /\ copy.pc = "fill_buf"
    /\ Filled(IF copy.limit = None THEN fill_buf(source)
              ELSE take_fill_buf(source, copy.limit))
    /\ UNCHANGED <<builder, fs, disk, savable, entries, count, irq, dirVars, out>>

\* line 815: src.fill_buf() returns Interrupted
FillBufInterrupted ==
    /\ copy.pc = "fill_buf"
    /\ reads(source, copy.limit)
    /\ irq < MaxInterrupts
    /\ irq' = irq + 1
    /\ copy' = continue(copy)
    /\ UNCHANGED <<builder, source, fs, disk, result, savable, entries, count, dirVars, out>>

\* lines 849-858: one turn of the while loop
Write ==
    /\ copy.pc = "write"
    /\ copy' = IF copy.buf = << >>
               THEN write_all_returns(copy, Full(copy.written))
               ELSE [write_all_step(copy, write(copy.dest, copy.buf))
                        EXCEPT !.last = issued(copy.buf, write(copy.dest, copy.buf))]
    /\ result' = IF copy'.pc = "done" THEN copy'.res ELSE result
    /\ UNCHANGED <<builder, source, fs, disk, savable, entries, count, irq, dirVars, out>>

\* line 850: dest.write(buf) returns Interrupted
WriteInterrupted ==
    /\ copy.pc = "write"
    /\ copy.buf # << >>
    /\ irq < MaxInterrupts
    /\ irq' = irq + 1
    /\ copy' = [continue(copy) EXCEPT
                  !.last = [buf |-> copy.buf, kind |-> "interrupted", n |-> 0]]
    /\ UNCHANGED <<builder, source, fs, disk, result, savable, entries, count, dirVars, out>>

\* lines 820-829: the match on what try_write_all returned
Match ==
    /\ copy.pc = "match"
    /\ source' = consume_copied(source, copy.res)
    /\ IF copy.res.tag = "Full"
       THEN /\ copy' = [add_copied(copy) EXCEPT !.pc = "fill_buf"]
            /\ UNCHANGED result
       ELSE /\ copy' = [add_copied(copy) EXCEPT !.pc = "done"]
            /\ result' = match_returns(add_copied(copy))
    /\ UNCHANGED <<builder, fs, disk, savable, entries, count, irq, dirVars, out>>

\* lines 792-796: the peek after a copy that ended Full
Peek ==
    /\ copy.pc = "peek"
    /\ result' = peeked([res |-> Full(copy.total_copied), r |-> source, w |-> copy.dest],
                        fill_buf(source)).res
    /\ source' = fill_buf(source).r
    /\ copy' = [copy EXCEPT !.pc = "done"]
    /\ UNCHANGED <<builder, fs, disk, savable, entries, count, irq, dirVars, out>>

\* line 795: the peek returns Interrupted: `Err(e) => Partial(copied, IoError(e))`
PeekInterrupted ==
    /\ copy.pc = "peek"
    /\ reads(source, None)
    /\ irq < MaxInterrupts
    /\ irq' = irq + 1
    /\ result' = Partial(copy.total_copied, "IoError", "Interrupted")
    /\ copy' = [copy EXCEPT !.pc = "done"]
    /\ UNCHANGED <<builder, source, fs, disk, savable, entries, count, dirVars, out>>

NextCopy ==
    \/ FillBuf
    \/ FillBufInterrupted
    \/ Write
    \/ WriteInterrupted
    \/ Match
    \/ Peek
    \/ PeekInterrupted

SpecCopy == InitCopy /\ [][NextCopy]_vars

\* every call a copy is about to make is made in the end
FairCopy == InitCopy /\ [][NextCopy]_vars /\ WF_vars(NextCopy)

----------------------------------------------------------------------------
(* The save directory of an Entries.  `save_dir` is the SaveDir value      *)
(* with its owner: "held" by an Entries, "released" when the Entries was   *)
(* dropped, "deleted" when delete() consumed it.  `dirs` maps every        *)
(* save directory on disk to the set of files in it (the directories above *)
(* it are not modelled).  The one failure of a run, fs.fault, is here a    *)
(* removal the filesystem refuses ("remove"): of the file `at`, or of      *)
(* everything when `at` is None.                                           *)

\* SaveDir::Temp(TempDir) and SaveDir::Perm(PathBuf)
Temp(path) == [kind |-> "Temp", path |-> path]
Perm(path) == [kind |-> "Perm", path |-> path]

\* the directories TempDir::new makes, and the ones a caller names to with_dir
TempPaths == {"tmp/multipart-rs.1", "tmp/multipart-rs.2"}
PermPaths == {"uploads", "srv/files"}

as_path(self) == self.path

is_temporary(self) == self.kind = "Temp"

\* TempDir::into_path hands over the path and disarms the removal on drop
into_path(self) == self.path

\* keep() that leaves the placeholder of mem::replace in place
keep_placeholder(self) == Perm("")

\* SaveDir::keep
keep(self) ==
    IF self.kind = "Temp" THEN Perm(into_path(self)) ELSE self

\* a removal that failed with `e` and left the files `left` in `path`
refused(fsys, path, e, left) ==
    [ok |-> FALSE, err |-> e, dirs |-> [fsys EXCEPT ![path] = left]]

\* fs::remove_dir_all, the outcomes it can have.  The entries are removed one
\* by one, in the order the directory lists them, and the first failure is
\* returned: the files listed before the refused one are gone by then, and
\* the order is the filesystem's.  A missing directory is a failure too.
remove_dir_all(fsys, path, fault) ==
    CASE path \notin DOMAIN fsys ->
            {[ok |-> FALSE, err |-> "NotFound", dirs |-> fsys]}
      [] path \in DOMAIN fsys /\ fault.kind = "remove" /\ fault.at = None ->
            {refused(fsys, path, "PermissionDenied", fsys[path])}
      [] path \in DOMAIN fsys /\ fault.kind = "remove" /\ fault.at \in fsys[path] ->
            {refused(fsys, path, "PermissionDenied", left) :
                left \in {l \in SUBSET fsys[path] : fault.at \in l}}
      [] OTHER ->
            {[ok |-> TRUE, err |-> "None",
              dirs |-> [q \in DOMAIN fsys \ {path} |-> fsys[q]]]}

\* SaveDir::delete: TempDir::close() and fs::remove_dir_all both remove the
\* directory and return the result of the removal
delete(self, fsys, fault) == remove_dir_all(fsys, self.path, fault)

\* the drop of a SaveDir: a TempDir removes its directory and lets a failure
\* of the removal pass; a PathBuf has nothing to do
drop(self, fsys, fault) ==
    IF self.kind = "Temp"
    THEN {rm.dirs : rm \in remove_dir_all(fsys, self.path, fault)}
    ELSE {fsys}

Held(dir) == [kind |-> dir.kind, path |-> dir.path, owner |-> "held"]

\* the return of a call on a value: io::Result or Option, Ok(v) / Some(v) as
\* val = <<v>>, Err(e) as err = <<e>>
Call(op, val, err) == [op |-> op, ok |-> err = << >>, val |-> val, err |-> err]

\* the removals a filesystem refuses
RemoveFaults == {[kind |-> "remove", at |-> a] : a \in {None} \cup 1..MaxFields}

\* the disk when the save starts.  with_temp_dir gets the directory
\* TempDir::new made, empty.  with_dir (lines 223-229) calls create_dir_all,
\* which makes the parent of `dir` only (lines 778-786): the directory itself
\* is on disk only if it was there before, empty or with a file of its own.
started(dir) ==
    IF dir.kind = "Temp"
    THEN {as_path(dir) :> {}}
    ELSE {<< >>} \cup {as_path(dir) :> files : files \in SUBSET {MaxFields}}

\* with_temp_dir and with_dir: Entries::new(SaveDir::Temp(tempdir)),
\* Entries::new(SaveDir::Perm(dir))
InitDir ==
    /\ fs \in {[chunk |-> 1, fault |-> f] : f \in {NoFault} \cup RemoveFaults}
    /\ \E dir \in {Temp(path) : path \in TempPaths} \cup {Perm(path) : path \in PermPaths} :
          /\ save_dir = Held(dir)
          /\ dirs \in started(dir)
    /\ handles = {}
    /\ builder = new
    /\ source = NoSource
    /\ disk = << >>
    /\ result = Pending
    /\ savable = << >>
    /\ entries = [fields |-> << >>]
    /\ count = 0
    /\ copy = NoCopy
    /\ irq = 0
    /\ out = NoCall

\* line 371, create_dir_all(&path): the parent of the file, the save
\* directory, is made when it is missing, unless the filesystem refuses
made(fsys, path, d) ==
    IF d.ok /\ path \notin DOMAIN fsys THEN fsys @@ (path :> {}) ELSE fsys

\* line 371 for the file `file` of a field in the directory `path`: the
\* directory is made or refused (`d`); when it was made, the open creates
\* the file or is refused (`f`)
with_file(fsys, path, file, d, f) ==
    IF f.ok
    THEN [made(fsys, path, d) EXCEPT ![path] = @ \cup {file}]
    ELSE made(fsys, path, d)

\* the files in `path`, none when the directory is missing
files_in(fsys, path) == IF path \in DOMAIN fsys THEN fsys[path] ELSE {}

\* line 269: a file field saved `.with_dir(&entries.save_dir)`
SaveIntoDir ==
    /\ save_dir.owner = "held"
    /\ \E file \in 1..MaxFields \ files_in(dirs, as_path(save_dir)),
          fault \in {NoFault} \cup {[kind |-> k, at |-> None] : k \in {"mkdir", "open"}} :
          dirs' = with_file(dirs, as_path(save_dir), file, create_dir_all(fault),
                            open(builder.open_opts, << >>, fault))
    /\ UNCHANGED <<builder, source, fs, disk, result, savable, entries, count, copyVars, handles,
                   save_dir, out>>

Keep ==
    /\ save_dir.owner = "held"
    /\ save_dir' = Held(keep(save_dir))
    /\ out' = Call("keep", << >>, << >>)
    /\ UNCHANGED <<builder, source, fs, disk, result, savable, entries, count, copyVars, handles,
                   dirs>>

\* SaveDir::into_path (lines 559-566): the value is consumed for its path; a
\* TempDir is disarmed, nothing is removed
IntoPath ==
    /\ save_dir.owner = "held"
    /\ save_dir' = [save_dir EXCEPT !.owner = "unwrapped"]
    /\ out' = Call("into_path", <<into_path(save_dir)>>, << >>)
    /\ UNCHANGED <<builder, source, fs, disk, result, savable, entries, count, copyVars, handles,
                   dirs>>

\* what delete() returned and left on disk
Deleted(rm) ==
    /\ dirs' = rm.dirs
    /\ out' = Call("delete", << >>, IF rm.ok THEN << >> ELSE <<rm.err>>)

Delete ==
    /\ save_dir.owner = "held"
    /\ save_dir' = [save_dir EXCEPT !.owner = "deleted"]
    /\ \E rm \in delete(save_dir, dirs, fs.fault) : Deleted(rm)
    /\ UNCHANGED <<builder, source, fs, disk, result, savable, entries, count, copyVars, handles>>

\* the Entries owning the SaveDir is dropped
Release ==
    /\ save_dir.owner = "held"
    /\ save_dir' = [save_dir EXCEPT !.owner = "released"]
    /\ dirs' \in drop(save_dir, dirs, fs.fault)
    /\ out' = Call("drop", << >>, << >>)
    /\ UNCHANGED <<builder, source, fs, disk, result, savable, entries, count, copyVars, handles>>

NextDir ==
    \/ SaveIntoDir
    \/ Keep
    \/ IntoPath
    \/ Delete
    \/ Release

SpecDir == InitDir /\ [][NextDir]_vars

----------------------------------------------------------------------------
(* What a caller does with the SaveResult a save returned: one of the      *)
(* conversions of SaveResult, or keep_partial on the PartialEntries of a   *)
(* Partial.  Each consumes the value; `out` is what it returned.           *)

\* into_opt_both without the arm of Partial(_, IoError(e))
into_opt_both_no_reason(self) ==
    CASE self.tag = "Full" -> <<Some(self.val), << >> >>
      [] self.tag = "Partial" -> <<Some(into(self.val)), << >> >>
      [] self.tag = "Error" -> << << >>, Some(self.err)>>

\* SaveResult::into_opt_both: (Option<S>, Option<io::Error>)
into_opt_both(self) ==
    CASE self.tag = "Full" -> <<Some(self.val), << >> >>
      [] self.tag = "Partial" /\ self.reason = "IoError" ->
            <<Some(into(self.val)), Some(self.err)>>
      [] self.tag = "Partial" /\ self.reason # "IoError" ->
            <<Some(into(self.val)), << >> >>
      [] self.tag = "Error" -> << << >>, Some(self.err)>>

\* SaveResult::okish: `self.into_opt_both().0`
okish(self) == into_opt_both(self)[1]

\* SaveResult::into_result
into_result(self) ==
    CASE self.tag = "Full" -> Ok(self.val)
      [] self.tag = "Partial" -> Ok(into(self.val))
      [] self.tag = "Error" -> Err(self.err)

\* into_result_strict with the arm of Partial(_, IoError(e)) after the arm of
\* every Partial, where it is never taken
into_result_lenient(self) ==
    CASE self.tag = "Full" -> Ok(self.val)
      [] self.tag = "Partial" -> Ok(into(self.val))
      [] self.tag = "Error" -> Err(self.err)

\* SaveResult::into_result_strict
into_result_strict(self) ==
    CASE self.tag = "Full" -> Ok(self.val)
      [] self.tag = "Partial" /\ self.reason = "IoError" -> Err(self.err)
      [] self.tag = "Error" -> Err(self.err)
      [] self.tag = "Partial" /\ self.reason # "IoError" -> Ok(into(self.val))

\* keep_partial that drops the partial field, as Into<Entries> does
keep_partial_discards(self) == self.entries

\* PartialEntries::keep_partial
keep_partial(self) ==
    IF self.partial_file # << >> /\ self.partial_file[1].dest # << >>
    THEN [self.entries EXCEPT !.fields =
            push(@, self.partial_file[1].field_name, self.partial_file[1].dest[1])]
    ELSE self.entries

(* The values a save returns.  A field's save is run under the builder     *)
(* with_entries gives it, with each size limit; the Entries of a request   *)
(* hold none, one or two fields saved before.                              *)
FieldOutcomes ==
    {with_path(field_builder(size_limit(new, l)),
               Reader(body, env.chunk, FaultAt(env.fault, "read")), 1, env) :
        l \in {None, 0, 1}, body \in EntryBodies, env \in EntryFilesystems}

SavedEntries ==
    {[fields |-> << >>],
     [fields |-> push(<< >>, "a", SavedField("a", 1, Text(<<104, 105>>)))],
     [fields |-> push(push(<< >>, "a", SavedField("a", 1, Text(<<104, 105>>))),
                      "b", SavedField("b", 2, Bytes(<<65>>)))],
     [fields |-> push(push(push(<< >>, "a", SavedField("a", 1, Text(<<104, 105>>))),
                           "b", SavedField("b", 2, Bytes(<<65>>))),
                      "a", SavedField("a", 3, File(1, 2)))]}

\* the number of records in `ents`
NumRecords(ents) ==
    Cardinality(UNION {{<<n, j>> : j \in 1..Len(ents.fields[n])} : n \in DOMAIN ents.fields})

EntriesResults ==
    {Full(ents) : ents \in SavedEntries}
        \cup {Partial(PartialEntries(ents, << >>), "IoError", "Other") : ents \in SavedEntries}
        \cup {count_limit_result(ents, name, Reader(body, 1, None)) :
                 ents \in SavedEntries, name \in Names, body \in EntryBodies}
        \cup {partial_result(ents, name, NumRecords(ents) + 1, o) :
                 ents \in SavedEntries, name \in Names,
                 o \in {f \in FieldOutcomes : f.res.tag # "Full"}}

InitResult ==
    /\ result \in {o.res : o \in FieldOutcomes} \cup EntriesResults
    /\ out = NoCall
    /\ builder = new
    /\ fs = [chunk |-> 1, fault |-> NoFault]
    /\ source = NoSource
    /\ disk = << >>
    /\ savable = << >>
    /\ entries = [fields |-> << >>]
    /\ count = 0
    /\ copy = NoCopy
    /\ irq = 0
    /\ save_dir = NoDir
    /\ dirs = << >>
    /\ handles = {}

Okish ==
    /\ out = NoCall
    /\ out' = Call("okish", okish(result), << >>)
    /\ UNCHANGED <<builder, source, fs, disk, result, savable, entries, count,
                   copyVars, dirVars>>

IntoOptBoth ==
    /\ out = NoCall
    /\ out' = Call("into_opt_both", into_opt_both(result)[1], into_opt_both(result)[2])
    /\ UNCHANGED <<builder, source, fs, disk, result, savable, entries, count,
                   copyVars, dirVars>>

IntoResult ==
    /\ out = NoCall
    /\ out' = Call("into_result", into_result(result).val, into_result(result).err)
    /\ UNCHANGED <<builder, source, fs, disk, result, savable, entries, count,
                   copyVars, dirVars>>

IntoResultStrict ==
    /\ out = NoCall
    /\ out' = Call("into_result_strict", into_result_strict(result).val,
                   into_result_strict(result).err)
    /\ UNCHANGED <<builder, source, fs, disk, result, savable, entries, count,
                   copyVars, dirVars>>

\* `Partial(partial, _) => partial.keep_partial()` on a whole-request result
KeepPartial ==
    /\ out = NoCall
    /\ result.tag = "Partial"
    /\ "partial_file" \in DOMAIN result.val
    /\ out' = Call("keep_partial", Some(keep_partial(result.val)), << >>)
    /\ UNCHANGED <<builder, source, fs, disk, result, savable, entries, count,
                   copyVars, dirVars>>

NextResult ==
    \/ Okish
    \/ IntoOptBoth
    \/ IntoResult
    \/ IntoResultStrict
    \/ KeepPartial

SpecResult == InitResult /\ [][NextResult]_vars

----------------------------------------------------------------------------
(* A save resumed: the caller of a whole-request save that returned        *)
(* Partial calls keep_partial and hands the Entries it returns to          *)
(* with_entries, which goes on with the fields the source still has.       *)

\* the requests resumed: the builders with no count limit or a count limit of
\* one file, with and without a size limit, the other options at their defaults
InitResume ==
    /\ InitEntries
    /\ builder \in {size_limit(count_limit(new, c), l) : c \in {None, 1}, l \in {None, 1}}

\* the fields a request has delivered at most when its save is resumed
MaxResumed == 1

\* with_entries(entries) on the Entries keep_partial returned: lines 234-235
Resume ==
    /\ out.op = "keep_partial"
    /\ Len(savable) <= MaxResumed
    /\ Len(savable) < MaxFields
    /\ entries' = out.val[1]
    /\ count' = 0
    /\ result' = Pending
    /\ out' = NoCall
    /\ UNCHANGED <<builder, source, fs, disk, savable, copyVars, dirVars>>

NextResume ==
    \/ NextEntries
    \/ KeepPartial
    \/ Resume

SpecResume == InitResume /\ [][NextResume]_vars

----------------------------------------------------------------------------
(* Properties of the single-field save (SpecField).                        *)

Returned == result.tag # "Pending"
NoIoFailure == fs.fault = NoFault /\ open(builder.open_opts, Existing(fs), fs.fault).ok
Body == source.data
Utf8(bytes) == from_utf8(bytes).ok

\* the bytes a SavedData holds: in memory, or in the file it names
content(data) ==
    CASE data.kind = "Text"  -> as_bytes(data.string)
      [] data.kind = "Bytes" -> data.bytes
      [] data.kind = "File"  -> disk[data.path]

\* C3: a single-field save of S bytes with size_limit = L and no I/O failure
\* returns Partial(SizeLimit) with exactly L bytes saved when L < S, and Full
\* with exactly S bytes saved when L >= S, for every threshold and text policy.
C3_SizeLimitExact ==
    (Returned /\ NoIoFailure /\ builder.size_limit # None) =>
        IF builder.size_limit < Len(Body)
        THEN /\ result.tag = "Partial"
             /\ result.reason = "SizeLimit"
             /\ size(result.val) = builder.size_limit
        ELSE /\ result.tag = "Full"
             /\ size(result.val) = Len(Body)

\* C4: with memory_threshold = T, no size_limit and no I/O failure, a field of
\* exactly T bytes is returned Full in memory with no file created, and a field
\* of T+1 bytes is returned Full as File(path, T+1) whose file holds the T
\* buffered bytes followed by the remaining byte.
C4_ThresholdBoundary ==
    (Returned /\ NoIoFailure /\ builder.size_limit = None) =>
        /\ Len(Body) = builder.memory_threshold =>
              /\ result.tag = "Full"
              /\ result.val.kind \in {"Text", "Bytes"}
              /\ disk = << >>
        /\ Len(Body) = builder.memory_threshold + 1 =>
              /\ result.tag = "Full"
              /\ result.val.kind = "File"
              /\ result.val.size = builder.memory_threshold + 1
              /\ Len(disk) = 1
              /\ disk[result.val.path] = Body

\* C5: valid UTF-8 content that ends within memory_threshold, no I/O failure:
\* Try and Force return Full(Text) holding exactly the content, Ignore returns
\* Full(Bytes) holding the identical bytes, and no file is created.
C5_TextWithinThreshold ==
    (/\ Returned /\ NoIoFailure
     /\ Utf8(Body)
     /\ Len(Body) <= builder.memory_threshold
     /\ (builder.size_limit = None \/ builder.size_limit >= Len(Body))) =>
        /\ result.tag = "Full"
        /\ disk = << >>
        /\ IF builder.text_policy = "Ignore"
           THEN result.val = Bytes(Body)
           ELSE result.val.kind = "Text" /\ as_bytes(result.val.string) = Body

\* C6: content that is not valid UTF-8 and ends within memory_threshold: Force
\* returns Error of kind InvalidData, Try returns Full(Bytes) holding the
\* original bytes.
C6_InvalidTextWithinThreshold ==
    (/\ Returned /\ NoIoFailure
     /\ ~Utf8(Body)
     /\ Len(Body) <= builder.memory_threshold
     /\ (builder.size_limit = None \/ builder.size_limit >= Len(Body))) =>
        /\ builder.text_policy = "Force" =>
              result.tag = "Error" /\ result.err = "InvalidData"
        /\ builder.text_policy = "Try" =>
              result.tag = "Full" /\ result.val = Bytes(Body)

\* C7: once more bytes remain after memory_threshold bytes were buffered, the
\* text policy has no effect: the result is never Text and never an InvalidData
\* Error, and the buffered bytes are written to the file followed by the rest
\* of the stream.
C7_NoTextAfterSpill ==
    (/\ Returned /\ NoIoFailure
     /\ builder.size_limit = None
     /\ Len(Body) > builder.memory_threshold) =>
        /\ result.tag = "Full"
        /\ result.val.kind = "File"
        /\ disk = <<Body>>

\* C16: with memory_threshold = 0 every non-empty file field is saved directly
\* to the filesystem: under every text policy, with no size limit and no I/O
\* failure, a single-field save of a field of S > 0 bytes returns
\* Full(SavedData::File(path, S)) and never an in-memory Text or Bytes value.
C16_ZeroThresholdToFile ==
    (/\ Returned /\ NoIoFailure
     /\ builder.memory_threshold = 0
     /\ builder.size_limit = None
     /\ Len(Body) > 0) =>
        /\ result.tag = "Full"
        /\ result.val.kind = "File"
        /\ result.val.size = Len(Body)

\* C10: a single-field save that returns Error has consumed no byte of the
\* field's body stream and has created no destination file.
C10_ErrorDidNothing ==
    (Returned /\ result.tag = "Error") => (source.pos = 0 /\ disk = Existing(fs))

\* the save left bytes in its destination file
Spilled == disk # Existing(fs)

\* the bytes of `file` a save wrote: a body has no byte of OldFile
Written(file) == SelectSeq(file, LAMBDA b : b \in Byte)

\* C21: when a field spills to disk with size_limit = L, the bytes buffered in
\* phase 1 count against L: in every outcome the destination file holds at most
\* L bytes, the size recorded in SavedData::File is at most L, and the recorded
\* size is the buffered bytes written plus the bytes copied from the stream
\* (the bytes this save put in the file).
C21_SpillCountsBuffered ==
    (Returned /\ Spilled /\ builder.size_limit # None) =>
        /\ Len(Written(disk[1])) <= builder.size_limit
        /\ (result.tag # "Error" /\ result.val.kind = "File") =>
              /\ result.val.size <= builder.size_limit
              /\ result.val.size = Len(Written(disk[result.val.path]))

\* the body stream as it was handed to the save
Offered == Reader(Body, fs.chunk, FaultAt(fs.fault, "read"))

\* the save went on to its destination file (line 369): the field did not end
\* within the buffer and the text policy returned nothing
SpillPhase ==
    LET sm == save_mem(builder, Offered)
    IN  /\ sm.res.tag = "Full"
        /\ ~sm.res.val.end
        /\ \/ builder.text_policy = "Ignore"
           \/ builder.text_policy = "Try" /\ ~Utf8(sm.res.val.bytes)

OpenFailed == ~open(builder.open_opts, Existing(fs), fs.fault).ok

\* C22: in the spill phase of a single-field save, Error is returned if and
\* only if the destination file could not be created or opened; once the file
\* is created, every outcome is Full or Partial with SavedData::File(path,
\* size so far), so the file is always reported with its path.
C22_ErrorIffNotCreated ==
    (Returned /\ SpillPhase) =>
        /\ result.tag = "Error" <=> OpenFailed
        /\ OpenFailed => ~Spilled
        /\ ~OpenFailed =>
              /\ Len(disk) = 1
              /\ result.tag \in {"Full", "Partial"}
              /\ result.val = File(1, Len(Written(disk[1])))

\* the bounded copy of the offered stream into a memory buffer
BoundedCopy == try_copy_limited(Offered, VecWriter, builder.size_limit)

\* C23: with size_limit = L set and smaller than memory_threshold, a
\* single-field save never touches the filesystem: no file is created, at most
\* L bytes of the stream are consumed and held in the memory buffer, and the
\* Partial(SizeLimit) or the Error of the bounded copy is what the caller gets.
C23_LimitBelowThreshold ==
    (/\ Returned
     /\ builder.size_limit # None
     /\ builder.size_limit < builder.memory_threshold) =>
        /\ ~Spilled
        /\ source.pos <= builder.size_limit
        /\ result.tag # "Error" =>
              /\ result.val = Bytes(SubSeq(Body, 1, source.pos))
              /\ size(result.val) <= builder.size_limit
        /\ result.tag = BoundedCopy.res.tag
        /\ result.reason = BoundedCopy.res.reason
        /\ result.err = BoundedCopy.res.err
        /\ (NoIoFailure /\ Len(Body) > builder.size_limit) =>
              result = Partial(Bytes(SubSeq(Body, 1, builder.size_limit)),
                               "SizeLimit", "None")

C23_Witness ==
    /\ Returned
    /\ builder.size_limit = 1
    /\ builder.memory_threshold = 2
    /\ Len(Body) = MaxBody
    /\ result = Partial(Bytes(SubSeq(Body, 1, 1)), "SizeLimit", "None")
    /\ disk = << >>

----------------------------------------------------------------------------
(* Properties of the builder's configuration (SpecBuilder).                *)

Options == {"open_opts", "size_limit", "count_limit", "memory_threshold", "text_policy"}

\* the step leaves every option but `option` as it was
Only(option) == \A o \in Options \ {option} : builder'[o] = builder[o]

\* C26: a new builder has size_limit None, count_limit None, memory_threshold
\* DEFAULT_MEMORY_THRESHOLD (8 MiB in the source), text policy Try and open
\* options write + create_new; each setter changes only its own option, the
\* three text setters to their policy; after any sequence of setters, a
\* mod_open_opts closure that clears it included, the write flag is true.
C26_BuilderConfiguration ==
    /\ builder.size_limit = None
    /\ builder.count_limit = None
    /\ builder.memory_threshold = DEFAULT_MEMORY_THRESHOLD
    /\ builder.text_policy = "Try"
    /\ builder.open_opts = [write |-> TRUE, append |-> FALSE, truncate |-> FALSE,
                            create |-> FALSE, create_new |-> TRUE]
    /\ [](DOMAIN builder = Options /\ builder.open_opts.write)
    /\ [][/\ SetSizeLimit => Only("size_limit")
          /\ SetCountLimit => Only("count_limit")
          /\ SetMemoryThreshold => Only("memory_threshold")
          /\ TryText => (Only("text_policy") /\ builder'.text_policy = "Try")
          /\ ForceText => (Only("text_policy") /\ builder'.text_policy = "Force")
          /\ IgnoreText => (Only("text_policy") /\ builder'.text_policy = "Ignore")
          /\ ModOpenOpts => Only("open_opts")]_vars

\* every option set away from its default, closures having cleared write and
\* create_new and set create
C26_Witness ==
    /\ builder.size_limit = 2
    /\ builder.count_limit = 1
    /\ builder.memory_threshold = 0
    /\ builder.text_policy = "Force"
    /\ builder.open_opts = [write |-> TRUE, append |-> FALSE, truncate |-> FALSE,
                            create |-> TRUE, create_new |-> FALSE]

----------------------------------------------------------------------------
(* Properties of the whole-request save (SpecEntries; C1 under             *)
(* SpecNoFailure, C24 under SpecHandles).                                  *)

Records(fields) ==
    UNION {{fields[n][j] : j \in 1..Len(fields[n])} : n \in DOMAIN fields}

SavedIds(fields) == {rec.headers.id : rec \in Records(fields)}

FileIds(delivered) == {i \in 1..Len(delivered) : delivered[i].kind = "File"}

\* `fields` holds exactly the fields delivered: every one of them has one
\* record, under its own name and holding its content, and the records of a
\* name are in the order of delivery
Grouped(fields, delivered) ==
    /\ DOMAIN fields = {delivered[i].name : i \in 1..Len(delivered)}
    /\ \A n \in DOMAIN fields :
          /\ {fields[n][j].headers.id : j \in 1..Len(fields[n])}
                = {i \in 1..Len(delivered) : delivered[i].name = n}
          /\ \A j \in 1..Len(fields[n]) :
                /\ fields[n][j].headers.name = n
                /\ j > 1 => fields[n][j - 1].headers.id < fields[n][j].headers.id
                /\ IF delivered[fields[n][j].headers.id].kind = "Text"
                   THEN fields[n][j].data = Text(delivered[fields[n][j].headers.id].body)
                   ELSE content(fields[n][j].data) = delivered[fields[n][j].headers.id].body

NoLimits == builder.size_limit = None /\ builder.count_limit = None

\* C1: with no size_limit, no count_limit and no failure of the source or of
\* the filesystem (SpecNoFailure), a whole-request save of N fields returns
\* Full, and entries.fields holds exactly the N fields, grouped by field
\* name, the records of a name in the order of delivery.
C1_FullGroupedInOrder ==
    (Returned /\ NoLimits) =>
        /\ result.tag = "Full"
        /\ result.val = entries
        /\ Grouped(result.val.fields, savable)
        /\ Cardinality(Records(result.val.fields)) = Len(savable)

\* C2: with count_limit = K, once the request delivers file field K+1 the save
\* returns Partial(CountLimit) with exactly K file fields saved (text fields are
\* not counted), the partial field is that file field with destination None,
\* and its body stream is untouched: reading it yields its first bytes.
C2_CountLimit ==
    /\ (builder.count_limit # None /\ Cardinality(FileIds(savable)) > builder.count_limit) =>
          /\ result.tag = "Partial"
          /\ result.reason = "CountLimit"
    /\ (result.tag = "Partial" /\ result.reason = "CountLimit") =>
          LET last == savable[Len(savable)]
              pe == result.val
          IN  /\ builder.count_limit # None
              /\ Cardinality(FileIds(savable)) = builder.count_limit + 1
              /\ last.kind = "File"
              /\ SavedIds(pe.entries.fields) = 1..(Len(savable) - 1)
              /\ Cardinality(SavedIds(pe.entries.fields) \cap FileIds(savable))
                    = builder.count_limit
              /\ Len(pe.partial_file) = 1
              /\ pe.partial_file[1].field_name = last.name
              /\ pe.partial_file[1].dest = << >>
              /\ pe.partial_file[1].source.data = last.body
              /\ pe.partial_file[1].source.pos = 0
              /\ pe.partial_file[1].source.bufEnd = 0

C2_Witness ==
    /\ result.tag = "Partial" /\ result.reason = "CountLimit"
    /\ builder.count_limit = 1
    /\ Len(savable) = 3
    /\ savable[2].kind = "Text"
    /\ Len(savable[3].body) = MaxLen

\* the records a single-field save under the builder `b` can return Full for
\* the body `body`
FullSaves(b, body) ==
    {with_path(b, Reader(body, env.chunk, FaultAt(env.fault, "read")), p, env).res :
        env \in EntryFilesystems, p \in 1..(Len(disk) + 1)}

\* C8: every file field of a whole-request save is classified with the
\* size_limit, memory_threshold and text_policy of the request's builder: its
\* record is one the single-field save returns under those options.
C8_FieldsUseRequestOptions ==
    \A rec \in Records(entries.fields) :
        savable[rec.headers.id].kind = "File" =>
            Full(rec.data) \in FullSaves(fork(builder), savable[rec.headers.id].body)

\* the Partial a field save `o` of the last delivered field is returned as
FieldPartial(pf, last, n, o) ==
    /\ pf.source = o.r
    /\ result.err = o.res.err
    /\ \/ /\ o.res.tag = "Partial"
          /\ pf.dest = Some(SavedField(last.name, n, o.res.val))
          /\ result.reason = o.res.reason
       \/ /\ o.res.tag = "Error"
          /\ pf.dest = << >>
          /\ result.reason = "IoError"

PartialField(pf, last, n) ==
    /\ SavedIds(entries.fields) = 1..(n - 1)
    /\ last.kind = "File"
    /\ pf.field_name = last.name
    /\ \/ result = count_limit_result(entries, last.name,
                                      Reader(last.body, 1, pf.source.failAt))
       \/ \E env \in EntryFilesystems, p \in 1..(Len(disk) + 1) :
             FieldPartial(pf, last, n,
                 with_path(field_builder(builder),
                           Reader(last.body, env.chunk, FaultAt(env.fault, "read")), p, env))

\* C9: a whole-request save never returns Error.  A source failure returns
\* Partial with no partial field and reason IoError; a field save ending
\* Partial(data, reason) returns Partial with destination Some(data) and the
\* same reason; a field save ending Error(e) returns Partial with destination
\* None and IoError(e); the entries returned are the fields fully saved before.
C9_NeverError ==
    Returned =>
        /\ result.tag \in {"Full", "Partial"}
        /\ result.tag = "Partial" =>
              /\ result.val.entries = entries
              /\ IF result.val.partial_file = << >>
                 THEN /\ result.reason = "IoError"
                      /\ SavedIds(entries.fields) = 1..Len(savable)
                 ELSE PartialField(result.val.partial_file[1],
                                   savable[Len(savable)], Len(savable))

C9_Witness ==
    /\ result.tag = "Partial" /\ result.reason = "IoError"
    /\ Len(savable) = 2
    /\ Len(result.val.partial_file) = 1
    /\ result.val.partial_file[1].dest = << >>
    /\ result.val.partial_file[1].source.pos > 0
    /\ Len(disk) = 1
    /\ SavedIds(result.val.entries.fields) = {1}

\* a step that pulls the next field from the source
Pulls == savable' # savable

\* the field pulled last
Current == savable[Len(savable)]

\* C24: a whole-request save handles its fields strictly one at a time
\* (SpecHandles).  At most one destination file is open at any moment: it is
\* the file created last, it belongs to the file field pulled last, which is
\* not yet recorded, and it is closed when the save has returned.  The next
\* field is pulled only while the save is running, no file is open and every
\* field pulled before is recorded as fully saved.  Once a field hit the
\* count limit or ended Partial or in Error the save has returned and nothing
\* more is pulled, consumed, recorded, created, opened or written.  A file is
\* created only by the step that pulls a file field, one file per field, and
\* is written only while it is open.
C24_OneFieldAtATime ==
    /\ [](Cardinality(handles) <= 1)
    /\ [](handles \subseteq {Len(disk)} \ {0})
    /\ [](Len(disk) <= Cardinality(FileIds(savable)))
    /\ [](CASE Returned -> handles = {}
            [] ~Returned /\ handles = {} ->
                  SavedIds(entries.fields) = 1..Len(savable)
            [] ~Returned /\ handles # {} ->
                  /\ SavedIds(entries.fields) = 1..(Len(savable) - 1)
                  /\ Current.kind = "File")
    /\ [][/\ Pulls =>
                /\ result = Pending
                /\ handles = {}
                /\ SavedIds(entries.fields) = 1..Len(savable)
                /\ savable' = Append(savable, savable'[Len(savable')])
          /\ Returned => UNCHANGED <<savable, entries, disk, count, result, handles>>
          /\ Len(disk') # Len(disk) =>
                /\ Pulls
                /\ savable'[Len(savable')].kind = "File"
                /\ disk' = Append(disk, << >>)
                /\ handles' = {Len(disk')}
          /\ handles' # handles => Len(disk') # Len(disk) \/ handles' = {}
          /\ \A path \in DOMAIN disk :
                (path \in DOMAIN disk' /\ disk'[path] # disk[path]) => path \in handles
          /\ (Pulls /\ result' # Pending) =>
                /\ result'.tag = "Partial"
                /\ handles' = {}
                /\ SavedIds(entries'.fields) = 1..Len(savable)]_vars

C24_Witness ==
    /\ result = Pending
    /\ handles = {2}
    /\ Len(savable) = 3
    /\ FileIds(savable) = {1, 3}
    /\ SavedIds(entries.fields) = {1, 2}
    /\ Len(disk) = 2 /\ disk[1] # << >> /\ disk[2] = << >>

----------------------------------------------------------------------------
(* Properties of a resumed save (SpecResume).                              *)

\* every key of `fields` has at least one record, each under its own name
NonEmpty(fields) ==
    \A n \in DOMAIN fields :
        /\ Len(fields[n]) > 0
        /\ \A j \in 1..Len(fields[n]) : fields[n][j].headers.name = n

\* C25: in every state reached through with_entries and keep_partial, every
\* field name that is a key of entries.fields maps to a non-empty sequence of
\* records: in the Entries being filled, in the Entries a save returns Full or
\* inside a Partial, and in the Entries keep_partial returns; a step that adds
\* a key adds it with one record.
C25_FieldsNonEmpty ==
    /\ [](/\ NonEmpty(entries.fields)
          /\ result.tag = "Full" => NonEmpty(result.val.fields)
          /\ result.tag = "Partial" => NonEmpty(result.val.entries.fields)
          /\ out.op = "keep_partial" => NonEmpty(out.val[1].fields))
    /\ [][\A n \in DOMAIN entries'.fields \ DOMAIN entries.fields :
              Len(entries'.fields[n]) = 1]_vars

\* a save resumed after its first field ended Partial: the record keep_partial
\* added is under a key with the records of the resumed save
C25_Witness ==
    /\ result.tag = "Full"
    /\ Len(savable) = 3
    /\ SavedIds(entries.fields) = {1, 2, 3}
    /\ DOMAIN entries.fields = {"a", "b"}
    /\ savable[1].name = "a"
    /\ Len(entries.fields["a"]) = 2
    /\ entries.fields["a"][1].data.kind = "File"
    /\ entries.fields["a"][1].data.size < Len(savable[1].body)

----------------------------------------------------------------------------
(* Properties of the copy primitives (SpecCopy, FairCopy).                 *)

Copying == copy.op \in {"try_copy_buf", "try_copy_limited"}

\* the step is an interrupted call
Interrupt == irq' # irq

\* C11: an Interrupted result of the reader or the writer is retried where it
\* occurs and never reaches the caller: no Error or Partial(IoError) returned
\* by try_copy_limited, try_copy_buf or try_write_all carries an error of kind
\* Interrupted, and a retry leaves the running byte counts as they were.
C11_InterruptsNeverSurface ==
    /\ [](Returned => result.err # "Interrupted")
    /\ [][Interrupt => /\ ~Returned'
                       /\ copy'.pc = copy.pc
                       /\ copy'.written = copy.written
                       /\ copy'.total_copied = copy.total_copied]_vars

\* the peek of try_copy_limited fails: interrupted, or the read it needs fails
PeekFails ==
    \/ Interrupt
    \/ source.pos >= source.bufEnd /\ source.failAt = source.pos

\* C17: try_copy_limited(reader, writer, limit) consumes at most limit bytes
\* from the reader in every execution; after the copy it peeks without
\* consuming and returns Full(n) when no byte remains, Partial(n, SizeLimit)
\* when at least one byte remains and Partial(n, IoError) when the peek fails;
\* after Partial(limit, SizeLimit) the next byte the reader yields is the
\* source's byte at offset limit.
C17_BoundedCopy ==
    /\ [](copy.op = "try_copy_limited" =>
            /\ source.pos <= builder.size_limit
            /\ (Returned /\ result = Partial(builder.size_limit, "SizeLimit", "None")) =>
                  /\ fill_buf(source).ok
                  /\ fill_buf(source).buf # << >>
                  /\ fill_buf(source).buf[1] = source.data[builder.size_limit + 1])
    /\ [][(copy.pc = "peek" /\ copy'.pc = "done") =>
            /\ source'.pos = source.pos
            /\ result' = IF PeekFails
                         THEN Partial(copy.total_copied, "IoError", result'.err)
                         ELSE IF source.pos = Len(source.data)
                         THEN Full(copy.total_copied)
                         ELSE Partial(copy.total_copied, "SizeLimit", "None")
            /\ copy.total_copied = source.pos]_vars

C17_Witness ==
    /\ copy.op = "try_copy_limited" /\ Returned
    /\ builder.size_limit = 2
    /\ Len(source.data) = MaxLen
    /\ source.chunk = MaxChunk
    /\ result = Partial(2, "SizeLimit", "None")
    /\ irq > 0

\* C18: in every execution of try_copy_buf and try_copy_limited, whatever the
\* chunk sizes, partial writes, interrupts and failures, a chunk is consumed
\* from the reader only after it was written: the bytes the writer took are
\* the first bytes of the source in order, and at every return the reader has
\* consumed exactly the n bytes the writer took, n being the count reported
\* in Full(n) or Partial(n, _), and 0 for Error.
C18_CopyConservation ==
    Copying =>
        /\ source.pos <= Len(copy.dest.out)
        /\ Len(copy.dest.out) <= Len(source.data)
        /\ copy.dest.out = SubSeq(source.data, 1, Len(copy.dest.out))
        /\ Returned =>
              /\ source.pos = Len(copy.dest.out)
              /\ IF result.tag = "Error" THEN source.pos = 0
                 ELSE result.val = source.pos

C18_Witness ==
    /\ Copying /\ Returned
    /\ result.tag = "Partial" /\ result.reason = "IoError"
    /\ result.val = 2
    /\ source.bufEnd > source.pos
    /\ fs.chunk < source.chunk
    /\ irq > 0

\* C19: try_write_all(buffer, writer): a write that accepts fewer bytes than
\* remain is followed by a write of the remaining suffix; an interrupted write
\* is issued again with the same remaining bytes; a write reporting 0 bytes on
\* a non-empty remainder ends the call with a WriteZero failure and is not
\* retried; the call returns Full(len(buffer)) only when the writer took every
\* byte of the buffer in order, Error only when it took none, and
\* Partial(n, IoError) with 0 < n < len(buffer) otherwise.
C19_WriteAll ==
    copy.op = "try_write_all" =>
        /\ (copy.last.kind = "ok" /\ copy.last.n > 0 /\ copy.last.n < Len(copy.last.buf)) =>
              /\ copy.pc = "write"
              /\ copy.buf = Drop(copy.last.buf, copy.last.n)
        /\ copy.last.kind = "interrupted" =>
              /\ copy.pc = "write"
              /\ copy.buf = copy.last.buf
        /\ (copy.last.kind = "ok" /\ copy.last.n = 0) =>
              /\ Returned
              /\ result.tag \in {"Error", "Partial"}
              /\ result.err = "WriteZero"
        /\ copy.last.kind # "none" =>
              copy.last.buf = Drop(source.data, Len(source.data) - Len(copy.last.buf))
        /\ Returned =>
              /\ copy.dest.out = SubSeq(source.data, 1, Len(copy.dest.out))
              /\ CASE result.tag = "Full" ->
                        result.val = Len(source.data) /\ copy.dest.out = source.data
                   [] result.tag = "Error" -> copy.dest.out = << >>
                   [] result.tag = "Partial" ->
                        /\ result.reason = "IoError"
                        /\ result.val = Len(copy.dest.out)
                        /\ 0 < result.val /\ result.val < Len(source.data)

C19_Witness ==
    /\ copy.op = "try_write_all" /\ Returned
    /\ result = Partial(2, "IoError", "WriteZero")
    /\ Len(source.data) = MaxLen
    /\ fs.chunk = 1
    /\ irq > 0

\* C20: for a finite source and finitely many interrupted calls, every
\* execution of try_copy_buf, and of try_write_all on a finite buffer, returns
\* in the end; when no failure other than an interrupt occurs it returns
\* Full(total) with total the length of the source, however many calls were
\* interrupted.
C20_Termination ==
    <>(/\ Returned
       /\ (NoIoFailure /\ copy.op \in {"try_copy_buf", "try_write_all"}) =>
             result = Full(Len(source.data)))

C20_Witness ==
    /\ Returned
    /\ copy.op = "try_copy_buf"
    /\ NoIoFailure
    /\ irq = MaxInterrupts
    /\ result = Full(MaxLen)
    /\ fs.chunk < source.chunk

----------------------------------------------------------------------------
(* Properties of the save directory (SpecDir).                             *)

OnDisk(fsys) == as_path(save_dir) \in DOMAIN fsys

\* the files of the save directory on disk
Contents(fsys) == files_in(fsys, as_path(save_dir))

\* the filesystem refuses the removal of something the directory holds
Refuses == fs.fault.kind = "remove" /\ (fs.fault.at = None \/ fs.fault.at \in Contents(dirs))

\* keep(), the release of a Permanent value and delete(): after keep() the
\* value is Permanent with the same path and releasing it removes nothing;
\* keep() on a Permanent value changes nothing; nothing of a Permanent
\* directory is ever removed except by delete(); delete() removes the
\* directory and its contents for both variants, and when the removal fails
\* (a refusal, or no directory to remove) it returns the filesystem's failure
KeepAndDelete ==
    /\ [][Keep => /\ ~is_temporary(save_dir')
                  /\ as_path(save_dir') = as_path(save_dir)
                  /\ dirs' = dirs
                  /\ ~is_temporary(save_dir) => save_dir' = save_dir]_vars
    /\ [][(Release /\ ~is_temporary(save_dir)) => dirs' = dirs]_vars
    /\ [][(/\ ~is_temporary(save_dir)
           /\ \/ OnDisk(dirs) /\ ~OnDisk(dirs')
              \/ ~(Contents(dirs) \subseteq Contents(dirs'))) => Delete]_vars
    /\ [][Delete => CASE ~OnDisk(dirs) ->
                            dirs' = dirs /\ out'.err = <<"NotFound">>
                       [] OnDisk(dirs) /\ Refuses ->
                            /\ OnDisk(dirs')
                            /\ Contents(dirs') \subseteq Contents(dirs)
                            /\ out'.err = <<"PermissionDenied">>
                       [] OnDisk(dirs) /\ ~Refuses ->
                            ~OnDisk(dirs') /\ out'.ok]_vars

\* C12 as the claim has it: a Temporary save directory whose owner is
\* released without keep() is removed with its contents, whatever the
\* filesystem does; and KeepAndDelete.
C12_ReleasedTempRemoved ==
    /\ []((save_dir.owner = "released" /\ is_temporary(save_dir)) => ~OnDisk(dirs))
    /\ KeepAndDelete

\* C12: a Temporary save directory whose owner is released without keep() is
\* removed with its contents when the filesystem performs the removal; when
\* it refuses, the directory stays with the entries not removed before the
\* refusal, nothing else is touched and no failure is reported; and
\* KeepAndDelete.
C12_SaveDirLifecycle ==
    /\ []((save_dir.owner = "released" /\ is_temporary(save_dir) /\ ~Refuses) =>
              ~OnDisk(dirs))
    /\ [][(Release /\ is_temporary(save_dir)) =>
              /\ out' = Call("drop", << >>, << >>)
              /\ IF Refuses
                 THEN /\ OnDisk(dirs')
                      /\ Contents(dirs') \subseteq Contents(dirs)
                      /\ fs.fault.at # None => fs.fault.at \in Contents(dirs')
                 ELSE ~OnDisk(dirs')]_vars
    /\ KeepAndDelete

C12_Witness ==
    /\ is_temporary(save_dir)
    /\ save_dir.owner = "released"
    /\ out.op = "drop"
    /\ fs.fault = NoFault
    /\ dirs = << >>

----------------------------------------------------------------------------
(* Properties of the conversions of a returned value (SpecResult).         *)

\* the records `ents` held before are all in `kept`, each name's in their order
KeepsRecords(ents, kept) ==
    \A n \in DOMAIN ents.fields :
        /\ n \in DOMAIN kept.fields
        /\ Len(kept.fields[n]) >= Len(ents.fields[n])
        /\ SubSeq(kept.fields[n], 1, Len(ents.fields[n])) = ents.fields[n]

\* `kept` is `ents` with the record `rec` appended under `name`
Promoted(ents, kept, name, rec) ==
    /\ DOMAIN kept.fields = DOMAIN ents.fields \cup {name}
    /\ \A n \in DOMAIN ents.fields \ {name} : kept.fields[n] = ents.fields[n]
    /\ kept.fields[name] =
          Append(IF name \in DOMAIN ents.fields THEN ents.fields[name] ELSE << >>, rec)

\* C13 as claimed: keep_partial() appends the partial field's destination
\* record to entries.fields[field_name] if and only if a partial field is
\* present and its destination holds at least one written byte; otherwise (no
\* partial field, destination None, or a destination with zero bytes written)
\* it returns the entries unchanged; the records already in the entries are
\* kept in their order.
C13_KeepPartialWrittenBytes ==
    out.op = "keep_partial" =>
        /\ KeepsRecords(result.val.entries, out.val[1])
        /\ IF /\ result.val.partial_file # << >>
              /\ result.val.partial_file[1].dest # << >>
              /\ size(result.val.partial_file[1].dest[1].data) > 0
           THEN Promoted(result.val.entries, out.val[1],
                         result.val.partial_file[1].field_name,
                         result.val.partial_file[1].dest[1])
           ELSE out.val[1] = result.val.entries

\* C13 as amended: keep_partial() appends the partial field's destination
\* record to entries.fields[field_name] if and only if a partial field is
\* present and its destination is Some, whatever the number of bytes written
\* to it; otherwise (no partial field, or destination None) it returns the
\* entries unchanged; the records already in the entries are kept in their
\* order.
C13_KeepPartial ==
    out.op = "keep_partial" =>
        /\ KeepsRecords(result.val.entries, out.val[1])
        /\ IF /\ result.val.partial_file # << >>
              /\ result.val.partial_file[1].dest # << >>
           THEN Promoted(result.val.entries, out.val[1],
                         result.val.partial_file[1].field_name,
                         result.val.partial_file[1].dest[1])
           ELSE out.val[1] = result.val.entries

C13_Witness ==
    /\ out.op = "keep_partial"
    /\ result.val.partial_file # << >>
    /\ result.val.partial_file[1].dest # << >>
    /\ size(result.val.partial_file[1].dest[1].data) = 0
    /\ result.val.partial_file[1].field_name = "a"
    /\ Len(out.val[1].fields["a"]) = 3

\* C14: into_result_strict returns a failure exactly when the value is
\* Error(e) or Partial(_, IoError(e)), and the failure is that e; for Full(s)
\* it returns success with s, and for Partial(p, CountLimit) and
\* Partial(p, SizeLimit) success with p converted to the success type.
C14_IntoResultStrict ==
    out.op = "into_result_strict" =>
        CASE result.tag = "Error" -> ~out.ok /\ out.err = <<result.err>> /\ out.val = << >>
          [] result.tag = "Partial" /\ result.reason = "IoError" ->
                ~out.ok /\ out.err = <<result.err>> /\ out.val = << >>
          [] result.tag = "Full" -> out.ok /\ out.val = <<result.val>>
          [] result.tag = "Partial" /\ result.reason \in {"CountLimit", "SizeLimit"} ->
                /\ out.ok
                /\ out.val = <<IF "partial_file" \in DOMAIN result.val
                               THEN result.val.entries ELSE result.val>>

C14_Witness ==
    /\ out.op = "into_result_strict"
    /\ result.tag = "Partial" /\ result.reason = "SizeLimit"
    /\ "partial_file" \in DOMAIN result.val
    /\ result.val.partial_file # << >>
    /\ out.ok
    /\ out.val = <<result.val.entries>>

HasPayload(r) == r.tag \in {"Full", "Partial"}
HasFailure(r) == r.tag = "Error" \/ (r.tag = "Partial" /\ r.reason = "IoError")

\* C15: for every SaveResult r, into_opt_both(r) has a payload iff r is Full
\* or Partial and a failure iff r is Error or Partial with reason IoError;
\* okish(r) is the payload component of into_opt_both(r); into_result(r) fails
\* iff into_opt_both(r) has no payload; into_result_strict(r) fails iff
\* into_opt_both(r) has a failure.
C15_ResultAlgebra ==
    /\ out.op = "into_opt_both" =>
          /\ out.val # << >> <=> HasPayload(result)
          /\ out.err # << >> <=> HasFailure(result)
    /\ out.op = "okish" =>
          /\ out.val = into_opt_both(result)[1]
          /\ out.val # << >> <=> HasPayload(result)
    /\ out.op = "into_result" =>
          /\ ~out.ok <=> into_opt_both(result)[1] = << >>
          /\ ~out.ok <=> ~HasPayload(result)
    /\ out.op = "into_result_strict" =>
          /\ ~out.ok <=> into_opt_both(result)[2] # << >>
          /\ ~out.ok <=> HasFailure(result)

C15_Witness ==
    /\ out.op = "into_opt_both"
    /\ result.tag = "Partial" /\ result.reason = "IoError"
    /\ out.val # << >>
    /\ out.err = <<"Other">>

=============================================================================
